---- MODULE Spec2Model ----
(***************************************************************************)
(* taskfile2d2: translation of a Taskfile document into D2 diagram text.   *)
(*                                                                         *)
(* A Go string is a sequence of atoms.  An atom is a TLA+ string: either a *)
(* single character (names are spelled out character by character, so that *)
(* sorting, ":" detection, splitting and replacing are computed) or a      *)
(* literal fragment of a format string.  A Go value of type any is a       *)
(* tagged record [t |-> kind, v |-> payload].                              *)
(***************************************************************************)
EXTENDS Integers, Sequences, FiniteSets, TLC

\* ------------------------------------------------------------------ bounds
MaxUuid == 2        \* number of distinct values uuid.NewString() may return
MaxRuns == 2        \* calls of TaskfileToD2 in one process (library use)
MaxWrites == 3      \* Write calls in the writer-only specification

\* ----------------------------------------------------------------- strings
\* byte value of a character, the order Go compares strings by
Ord(c) ==
    CASE c = ":" -> 58
      [] c = "a" -> 97
      [] c = "b" -> 98
      [] c = "k" -> 107
      [] c = "m" -> 109
      [] c = "x" -> 120
      [] c = "z" -> 122
      [] OTHER -> 0

RECURSIVE StrLess(_, _)
StrLess(s, t) ==
    IF s = <<>> THEN t # <<>>
    ELSE IF t = <<>> THEN FALSE
    ELSE IF Ord(Head(s)) < Ord(Head(t)) THEN TRUE
    ELSE IF Ord(Head(s)) > Ord(Head(t)) THEN FALSE
    ELSE StrLess(Tail(s), Tail(t))

\* the least string of a non-empty set
MinStr(S) == CHOOSE s \in S : \A t \in S \ {s} : StrLess(s, t)

RECURSIVE SortedAsc(_)
SortedAsc(S) ==
    IF S = {} THEN <<>>
    ELSE LET m == MinStr(S) IN <<m>> \o SortedAsc(S \ {m})

RECURSIVE SortedDesc(_)
SortedDesc(S) ==
    IF S = {} THEN <<>>
    ELSE LET m == MinStr(S) IN SortedDesc(S \ {m}) \o <<m>>

\* slices.Sorted(maps.Keys(m)) over the key set of a map
Sorted(S) == SortedAsc(S)

\* strings.Contains(s, ":")
Contains(s, c) == \E i \in 1..Len(s) : s[i] = c

\* strings.ReplaceAll(s, ":", "'.'")
RECURSIVE ReplaceAll(_, _, _)
ReplaceAll(s, old, new) ==
    IF s = <<>> THEN <<>>
    ELSE (IF Head(s) = old THEN <<new>> ELSE <<Head(s)>>)
             \o ReplaceAll(Tail(s), old, new)

\* strings.SplitN(s, ":", 2) for a string that contains the separator
SplitN2(s, c) ==
    LET i == CHOOSE j \in 1..Len(s) : s[j] = c /\ \A k \in 1..(j - 1) : s[k] # c
    IN  <<SubSeq(s, 1, i - 1), SubSeq(s, i + 1, Len(s))>>

\* strings.Join(elems, sep)
RECURSIVE Join(_, _)
Join(elems, sep) ==
    IF elems = <<>> THEN <<>>
    ELSE IF Len(elems) = 1 THEN elems[1]
    ELSE elems[1] \o sep \o Join(Tail(elems), sep)

\* ------------------------------------------------------------- D2Writer
\* the loop of Write over its variadic values
RECURSIVE WriteValues(_, _, _)
WriteValues(d, key, values) ==
    IF values = <<>> THEN d
    ELSE WriteValues(Append(d, key \o <<": ">> \o Head(values)), key, Tail(values))

\* a Write that drops a line equal to the last line written
WriteMerging(d, key, values) ==
    LET line == IF values = <<>> THEN key ELSE key \o <<": ">> \o Head(values)
    IN  IF d # <<>> /\ d[Len(d)] = line THEN d
        ELSE IF values = <<>> THEN Append(d, key)
        ELSE WriteValues(d, key, values)

\* D2Writer.Write(key, values...)
Write(d, key, values) ==
    IF Len(values) = 0 THEN Append(d, key)
    ELSE WriteValues(d, key, values)

\* D2Writer.String()
String(d) == Join(d, <<"\n">>)

\* ------------------------------------------------------- values of type any
Nil == [t |-> "nil", v |-> <<>>]
AnyString(s) == [t |-> "string", v |-> s]
AnyInt(d) == [t |-> "int", v |-> d]
AnyList(l) == [t |-> "list", v |-> l]
AnyMap(f) == [t |-> "map", v |-> f]

\* m[k] of a Go map: the zero value (nil) for a missing key
Lookup(m, k) == IF k \in DOMAIN m THEN m[k] ELSE Nil

\* ------------------------------------------------------------ Document model
\* type Task struct; Cmds is Nil (nil slice) or a List
Task(desc, summary, silent, internal, requires, deps, cmd, cmds) ==
    [Desc |-> desc, Summary |-> summary, Silent |-> silent, Internal |-> internal,
     Requires |-> requires, Deps |-> deps, Cmd |-> cmd, Cmds |-> cmds]

\* type TaskCall struct
TaskCall(name, vars) == [TaskName |-> name, Vars |-> vars]

\* type RequiredVariable struct
RequiredVariable(name, enum) == [Name |-> name, Enum |-> enum]

\* the passed variables of a structured call, sorted by name
PassedVars(x) ==
    IF x.t = "map"
    THEN LET keys == Sorted(DOMAIN x.v)
         IN  [i \in 1..Len(keys) |-> [Name |-> keys[i], Value |-> x.v[keys[i]]]]
    ELSE <<>>

\* one iteration of the loop of GetDepCalls
DepCall(dep) ==
    CASE dep.t = "string" ->
            [panic |-> FALSE, call |-> TaskCall(dep.v, <<>>)]
      [] dep.t = "map" ->
            IF Lookup(dep.v, <<"task">>).t # "string"
            THEN [panic |-> TRUE, call |-> TaskCall(<<>>, <<>>)]
            ELSE [panic |-> FALSE,
                  call |-> TaskCall(Lookup(dep.v, <<"task">>).v,
                                    PassedVars(Lookup(dep.v, <<"vars">>)))]
      [] OTHER -> [panic |-> TRUE, call |-> TaskCall(<<>>, <<>>)]

RECURSIVE DepCalls(_)
DepCalls(deps) ==
    IF deps = <<>> THEN [panic |-> FALSE, calls |-> <<>>]
    ELSE LET h == DepCall(Head(deps))
             r == DepCalls(Tail(deps))
         IN  IF h.panic \/ r.panic THEN [panic |-> TRUE, calls |-> <<>>]
             ELSE [panic |-> FALSE, calls |-> <<h.call>> \o r.calls]

\* Task.GetDepCalls
GetDepCalls(t) == DepCalls(t.Deps)

\* a GetCmds that prefers cmd and never stops the process
GetCmdsLenient(t) ==
    IF t.Cmd.t = "nil"
    THEN [fatal |-> FALSE, cmds |-> IF t.Cmds.t = "nil" THEN <<>> ELSE t.Cmds.v]
    ELSE [fatal |-> FALSE, cmds |-> <<t.Cmd>>]

\* Task.GetCmds; fatal is log.Fatal
GetCmds(t) ==
    IF t.Cmd.t # "nil" /\ t.Cmds.t # "nil" THEN [fatal |-> TRUE, cmds |-> <<>>]
    ELSE IF t.Cmd.t = "nil"
    THEN [fatal |-> FALSE, cmds |-> IF t.Cmds.t = "nil" THEN <<>> ELSE t.Cmds.v]
    ELSE [fatal |-> FALSE, cmds |-> <<t.Cmd>>]

RECURSIVE Calls(_)
Calls(cmds) ==
    IF cmds = <<>> THEN <<>>
    ELSE LET cmd == Head(cmds)
         IN  (IF cmd.t = "map" /\ Lookup(cmd.v, <<"task">>).t = "string"
              THEN <<TaskCall(Lookup(cmd.v, <<"task">>).v,
                              PassedVars(Lookup(cmd.v, <<"vars">>)))>>
              ELSE <<>>) \o Calls(Tail(cmds))

\* a map entry is a command entry that is a mapping
IsMapEntry(cmd) == cmd.t = "map"

\* a GetCalls that takes every mapping entry for a task invocation
GetCallsEveryMap(t) ==
    LET c == GetCmds(t)
        maps == SelectSeq(c.cmds, IsMapEntry)
    IN  IF c.fatal THEN [fatal |-> TRUE, calls |-> <<>>]
        ELSE [fatal |-> FALSE,
              calls |-> [i \in 1..Len(maps) |->
                          TaskCall(Lookup(maps[i].v, <<"task">>).v,
                                   PassedVars(Lookup(maps[i].v, <<"vars">>)))]]

\* Task.GetCalls
GetCalls(t) ==
    LET c == GetCmds(t)
    IN  IF c.fatal THEN [fatal |-> TRUE, calls |-> <<>>]
        ELSE [fatal |-> FALSE, calls |-> Calls(c.cmds)]

\* the inner loop of GetRequiredVars: enum.(string) of every element
EnumStrings(l) == [i \in 1..Len(l) |-> l[i].v]

\* one iteration of the loop of GetRequiredVars
RequiredVar(variable) ==
    CASE variable.t = "string" ->
            [panic |-> FALSE, rv |-> RequiredVariable(variable.v, <<>>)]
      [] variable.t = "map" ->
            LET name == Lookup(variable.v, <<"name">>)
                enum == Lookup(variable.v, <<"enum">>)
            IN  IF name.t # "string" \/ enum.t # "list"
                   \/ (\E i \in 1..Len(enum.v) : enum.v[i].t # "string")
                THEN [panic |-> TRUE, rv |-> RequiredVariable(<<>>, <<>>)]
                ELSE [panic |-> FALSE, rv |-> RequiredVariable(name.v, EnumStrings(enum.v))]
      [] OTHER -> [panic |-> TRUE, rv |-> RequiredVariable(<<>>, <<>>)]

RECURSIVE RequiredVars(_)
RequiredVars(vars) ==
    IF vars = <<>> THEN [panic |-> FALSE, vars |-> <<>>]
    ELSE LET h == RequiredVar(Head(vars))
             r == RequiredVars(Tail(vars))
         IN  IF h.panic \/ r.panic THEN [panic |-> TRUE, vars |-> <<>>]
             ELSE [panic |-> FALSE, vars |-> <<h.rv>> \o r.vars]

\* Task.GetRequiredVars
GetRequiredVars(t) == RequiredVars(t.Requires)

\* --------------------------------------------------------- Translation engine
externalTaskIconName == <<"externalTaskIcon">>
internalTaskIconName == <<"internalTaskIcon">>
unknownTaskIconName == <<"unknownTaskIcon">>
varIconName == <<"varIcon">>
includedTaskfileIconName == <<"includedTaskfileIcon">>

\* the values uuid.NewString() may return
NewString == { <<"uuid-", ToString(i)>> : i \in 1..MaxUuid }

\* fmt.Sprintf("'%s'", s)
Quoted(s) == <<"'">> \o s \o <<"'">>

\* fmt.Sprintf("${%s}", name)
IconRef(name) == <<"${">> \o name \o <<"}">>

\* fmt.Sprintf("%#v", value) of a string, an integer or nil (the bound
\* values of the documents below are scalars)
GoSyntax(value) ==
    CASE value.t = "string" -> <<"\"">> \o value.v \o <<"\"">>
      [] value.t = "int" -> value.v
      [] OTHER -> <<"<nil>">>

\* strings.NewReplacer("'", "\\'", "\"", "\\\"", "{", "\\{", "}", "\\}").Replace
Escaped(s) ==
    [i \in 1..Len(s) |->
        CASE s[i] = "'" -> "\\'"
          [] s[i] = "\"" -> "\\\""
          [] s[i] = "{" -> "\\{"
          [] s[i] = "}" -> "\\}"
          [] OTHER -> s[i]]

\* the loop over taskCall.Vars in EncapsulatePassedVars; uuids[i] is the
\* valueUuid drawn for the i-th variable
RECURSIVE WritePassedVars(_, _, _, _)
WritePassedVars(d, container, vars, uuids) ==
    IF vars = <<>> THEN d
    ELSE LET passedVar == Head(vars)
             valueUuid == Head(uuids)
             d1 == Write(d, container \o <<".">> \o Quoted(passedVar.Name),
                         <<<<"{shape: image; icon: ">> \o IconRef(varIconName) \o <<"}">>>>)
             d2 == Write(d1, container \o <<".">> \o valueUuid,
                         <<Escaped(GoSyntax(passedVar.Value)) \o <<" {shape: text}">>>>)
             d3 == Write(d2, container \o <<".">> \o Quoted(passedVar.Name) \o <<" -> ">>
                                  \o container \o <<".">> \o valueUuid,
                         <<<<"set to">>>>)
         IN  WritePassedVars(d3, container, Tail(vars), Tail(uuids))

\* edge statements that keep the direct edge when variables are passed
WriteEdgesDirect(d, taskName, taskCall, first, second, container, uuids) ==
    LET calledD2TaskName == ReplaceAll(taskCall.TaskName, ":", "'.'")
        d0 == Write(d, Quoted(taskName) \o <<" -> ">> \o Quoted(calledD2TaskName), <<first>>)
    IN  IF Len(taskCall.Vars) = 0 THEN d0
        ELSE LET d1 == Write(d0, Quoted(taskName) \o <<" -> ">> \o container, <<first>>)
                 d2 == Write(d1, container \o <<" -> ">> \o Quoted(calledD2TaskName), <<second>>)
                 d3 == Write(d2, container,
                             <<<<"With {shape: parallelogram; style.stroke-dash: 3}">>>>)
             IN  WritePassedVars(d3, container, taskCall.Vars, uuids)

\* the edge statements of EncapsulatePassedVars
WriteEdges(d, taskName, taskCall, first, second, container, uuids) ==
    LET calledD2TaskName == ReplaceAll(taskCall.TaskName, ":", "'.'")
    IN  IF Len(taskCall.Vars) = 0
        THEN Write(d, Quoted(taskName) \o <<" -> ">> \o Quoted(calledD2TaskName), <<first>>)
        ELSE LET d1 == Write(d, Quoted(taskName) \o <<" -> ">> \o container, <<first>>)
                 d2 == Write(d1, container \o <<" -> ">> \o Quoted(calledD2TaskName), <<second>>)
                 d3 == Write(d2, container,
                             <<<<"With {shape: parallelogram; style.stroke-dash: 3}">>>>)
             IN  WritePassedVars(d3, container, taskCall.Vars, uuids)

\* the unknown-task icon statement of a call target
UnknownIcon(d, name) ==
    Write(d, Quoted(ReplaceAll(name, ":", "'.'")) \o <<".icon">>,
          <<IconRef(unknownTaskIconName)>>)

\* a classification that never marks a flat target
ClassifyNoFlat(d, memo, tasks, name) ==
    IF Contains(name, ":")
    THEN LET taskNameChunks == SplitN2(name, ":")
         IN  IF taskNameChunks[1] \notin DOMAIN memo
             THEN [data |-> d, memo |-> memo, panic |-> TRUE]
             ELSE IF taskNameChunks[2] \in memo[taskNameChunks[1]]
             THEN [data |-> d, memo |-> memo, panic |-> FALSE]
             ELSE [data |-> UnknownIcon(d, name),
                   memo |-> [memo EXCEPT ![taskNameChunks[1]] = @ \cup {taskNameChunks[2]}],
                   panic |-> FALSE]
    ELSE [data |-> d, memo |-> memo, panic |-> FALSE]

\* the classification side effect of EncapsulatePassedVars.  memo is
\* includesToIncludedTasks; a namespace that is no key of it reads as a nil
\* map, and the assignment into a nil map panics.
Classify(d, memo, tasks, name) ==
    IF Contains(name, ":")
    THEN LET taskNameChunks == SplitN2(name, ":")
         IN  IF taskNameChunks[1] \notin DOMAIN memo
             THEN [data |-> d, memo |-> memo, panic |-> TRUE]
             ELSE IF taskNameChunks[2] \in memo[taskNameChunks[1]]
             THEN [data |-> d, memo |-> memo, panic |-> FALSE]
             ELSE [data |-> UnknownIcon(d, name),
                   memo |-> [memo EXCEPT ![taskNameChunks[1]] = @ \cup {taskNameChunks[2]}],
                   panic |-> FALSE]
    ELSE IF ReplaceAll(name, ":", "'.'") \notin DOMAIN tasks
    THEN [data |-> UnknownIcon(d, name), memo |-> memo, panic |-> FALSE]
    ELSE [data |-> d, memo |-> memo, panic |-> FALSE]

\* EncapsulatePassedVars
EncapsulatePassedVars(d, memo, taskName, tasks, taskCall, first, second, container, uuids) ==
    Classify(WriteEdges(d, taskName, taskCall, first, second, container, uuids),
             memo, tasks, taskCall.TaskName)

\* the vars block and the legend written first; legend is the uuid of its key
Prologue(d, legend) ==
    Write(Write(d, <<"vars">>, <<<<"{five icon constants}">>>>),
          legend, <<<<"Legend {...}">>>>)

\* the global style rules written last
Epilogue(d) ==
    LET d1 == Write(d, <<"(** -> **)[*].style">>, <<<<"{stroke-width: 4 ...}">>>>)
        d2 == Write(d1, <<"(** -> **)[*]">>, <<<<"{&label: required by ...}">>>>)
        d3 == Write(d2, <<"(** -> **)[*]">>, <<<<"{&label: calls as dependency ...}">>>>)
        d4 == Write(d3, <<"*">>, <<<<"{!&shape: image ...}">>>>)
        d5 == Write(d4, <<"**.icon">>, <<<<"{near: bottom-center}">>>>)
    IN  Write(d5, <<"**">>, <<<<"{&shape: text ...}">>>>)

\* the include statement
IncludeIcon(d, include) ==
    Write(d, Quoted(include) \o <<".icon">>, <<IconRef(includedTaskfileIconName)>>)

\* text, style and icon of a task
TaskHead(d, taskName, task) ==
    LET markdownText ==
            (IF task.Desc # <<>> THEN <<"## Description\n">> \o task.Desc \o <<"\n">> ELSE <<>>)
            \o (IF task.Summary # <<>> THEN <<"## Summary\n">> \o task.Summary \o <<"\n">> ELSE <<>>)
        d1 == IF task.Desc # <<>> \/ task.Summary # <<>>
              THEN Write(d, Quoted(taskName) \o <<".Text">>,
                         <<<<"|md\n">> \o markdownText \o <<"|">>>>)
              ELSE d
        d2 == IF task.Silent
              THEN Write(d1, Quoted(taskName) \o <<".style.fill">>, <<<<"grey">>>>)
              ELSE d1
        taskIcon == IF task.Internal THEN internalTaskIconName ELSE externalTaskIconName
    IN  Write(d2, Quoted(taskName) \o <<".icon">>, <<IconRef(taskIcon)>>)

\* node and edge of every required variable of a task
RECURSIVE WriteRequiredVars(_, _, _)
WriteRequiredVars(d, taskName, vars) ==
    IF vars = <<>> THEN d
    ELSE LET requiredVar == Head(vars)
             label == IF Len(requiredVar.Enum) # 0
                      THEN <<"\"">> \o requiredVar.Name \o <<"\\n[">>
                               \o Join(requiredVar.Enum, <<", ">>) \o <<"]\"">>
                      ELSE requiredVar.Name
             d1 == Write(d, Quoted(requiredVar.Name),
                         <<label \o <<" {shape: image; icon: ">> \o IconRef(varIconName) \o <<"}">>>>)
             d2 == Write(d1, Quoted(requiredVar.Name) \o <<" -> ">> \o Quoted(taskName),
                         <<<<"required by">>>>)
         IN  WriteRequiredVars(d2, taskName, Tail(vars))

\* ------------------------------------------------------------------ inputs
nA == <<"a">>
nAB == <<"a", "b">>
nB == <<"b">>
nZ == <<"z">>
nAX == <<"a", ":", "x">>
nBX == <<"b", ":", "x">>
vK == <<"k">>
vX == <<"x">>
vM == <<"m">>
echo == AnyString(<<"echo hi">>)

\* a structured call entry {task: name}
CallTo(name) == AnyMap(<<"task">> :> AnyString(name))

\* a structured call entry {task: name, vars: bindings}
CallWith(name, bindings) ==
    AnyMap((<<"task">> :> AnyString(name)) @@ (<<"vars">> :> AnyMap(bindings)))

\* the task definitions documents are built from
ShapeIds == 0..11
Shape(i) ==
    CASE i = 1 -> Task(<<>>, <<>>, FALSE, FALSE, <<>>, <<>>, Nil, AnyList(<<echo>>))
      [] i = 2 -> Task(<<"d">>, <<"s">>, TRUE, TRUE,
                       <<AnyString(vM),
                         AnyMap((<<"name">> :> AnyString(vK))
                                @@ (<<"enum">> :> AnyList(<<AnyString(<<"p">>), AnyString(<<"q">>)>>)))>>,
                       <<>>, CallTo(nZ), Nil)
      [] i = 3 -> Task(<<>>, <<>>, FALSE, FALSE, <<>>,
                       <<AnyString(nA), AnyString(nZ)>>,
                       Nil, AnyList(<<CallTo(nZ), echo, CallTo(nB)>>))
      [] i = 4 -> Task(<<>>, <<"s">>, FALSE, TRUE, <<>>,
                       <<AnyString(nAX), CallWith(nAX, vK :> AnyString(<<"v">>))>>,
                       Nil, AnyList(<<CallTo(nBX), CallTo(nAX)>>))
      [] i = 5 -> Task(<<>>, <<>>, FALSE, FALSE, <<>>, <<AnyString(nZ)>>,
                       echo, AnyList(<<echo>>))
      [] i = 6 -> Task(<<>>, <<>>, FALSE, FALSE,
                       <<AnyMap(<<"name">> :> AnyString(vK))>>, <<>>, Nil, Nil)
      [] i = 7 -> Task(<<>>, <<>>, FALSE, FALSE,
                       <<AnyMap((<<"name">> :> AnyString(vK))
                                @@ (<<"enum">> :> AnyList(<<AnyInt(<<"1">>)>>)))>>,
                       <<>>, Nil, Nil)
      [] i = 8 -> Task(<<>>, <<>>, TRUE, FALSE, <<AnyString(vM)>>,
                       <<AnyString(nB), AnyInt(<<"42">>)>>, Nil, Nil)
      [] i = 9 -> Task(<<>>, <<>>, FALSE, FALSE, <<AnyInt(<<"42">>)>>, <<>>, Nil, Nil)
      [] i = 10 -> Task(<<"d">>, <<>>, FALSE, FALSE, <<>>,
                        <<AnyMap((<<"task">> :> AnyString(nZ)) @@ (<<"vars">> :> AnyList(<<>>)))>>,
                        Nil,
                        AnyList(<<CallWith(nB, (vX :> AnyInt(<<"1">>)) @@ (vK :> AnyString(<<"v">>))),
                                  AnyMap(<<"cmd">> :> echo)>>))
      [] OTHER -> Task(<<>>, <<>>, FALSE, FALSE, <<>>,
                       <<AnyMap(<<"vars">> :> AnyMap(vK :> AnyString(<<"v">>)))>>, Nil, Nil)

\* type Taskfile struct; Includes holds the keys of the includes mapping
\* (the values are never read), Tasks maps a name to its Task
Taskfile(includes, version, ids) ==
    [Includes |-> includes, Version |-> version,
     Tasks |-> [n \in {m \in DOMAIN ids : ids[m] # 0} |-> Shape(ids[n])]]

\* var taskfile Taskfile before yaml.Unmarshal
ZeroTaskfile == [Includes |-> {}, Version |-> <<>>, Tasks |-> <<>>]

\* what yaml.Unmarshal may deliver: err = nil and a document, or an error
Inputs ==
    { [ok |-> ok, includes |-> inc, version |-> ver,
       ids |-> (nA :> ia) @@ (nAB :> iab) @@ (nB :> ib)] :
        ok \in BOOLEAN, inc \in SUBSET {nA, nB}, ver \in {<<"3">>, <<"2">>},
        ia \in ShapeIds, iab \in {0, 2}, ib \in ShapeIds }

\* the documents of the repeated-call specification
LibInputs ==
    { [ok |-> TRUE, includes |-> inc, version |-> <<"3">>,
       ids |-> (nA :> ia) @@ (nAB :> 0) @@ (nB :> 0)] :
        inc \in SUBSET {nA, nB}, ia \in {0, 1, 4} }

\* the orders in which a range over a map with key set S may visit it
Orders(S) ==
    { o \in [1..Cardinality(S) -> S] : \A i, j \in 1..Cardinality(S) : i # j => o[i] # o[j] }

\* ------------------------------------------------------------------- state
VARIABLES
    pc,                         \* position in TaskfileToD2
    taskfile,                   \* the decoded document
    data,                       \* d2Writer.data
    includesToIncludedTasks,    \* the package-level classification memo
    includes,                   \* includes not yet visited by the loop
    taskNames,                  \* task names not yet visited by the loop
    taskName,                   \* the task being processed
    calls,                      \* calls of the task not yet emitted
    callCount,                  \* callCount of the inline-call loop
    result,                     \* what TaskfileToD2 returned
    err,                        \* err of yaml.Unmarshal is not nil
    runs,                       \* calls of TaskfileToD2 made so far
    prev,                       \* document and result of the previous call
    log                         \* Write calls made on a stand-alone writer

vars == <<pc, taskfile, data, includesToIncludedTasks, includes, taskNames,
          taskName, calls, callCount, result, err, runs, prev, log>>

NoResult == [returned |-> FALSE, text |-> <<>>, err |-> FALSE]

Init ==
    /\ pc = "idle"
    /\ taskfile = ZeroTaskfile
    /\ data = <<>>
    /\ includesToIncludedTasks = <<>>
    /\ includes = <<>>
    /\ taskNames = <<>>
    /\ taskName = <<>>
    /\ calls = <<>>
    /\ callCount = 0
    /\ result = NoResult
    /\ err = FALSE
    /\ runs = 0
    /\ prev = <<>>
    /\ log = <<>>

\* Taskfile.GetIncludes: the keys in map iteration order
GetIncludes(tf) == Orders(tf.Includes)

\* a TaskfileToD2 that examines the version before the error
EntryVersionFirst(failed, version) ==
    IF version # <<"3">> THEN "fatal"
    ELSE IF failed THEN "returned"
    ELSE "includes"

\* the checks at the head of TaskfileToD2: where control goes next
Entry(failed, version) ==
    IF failed THEN "returned"
    ELSE IF version # <<"3">> THEN "fatal"
    ELSE "includes"

\* TaskfileToD2 up to the evaluation of the include loop's range
StartFrom(S) ==
    /\ pc = "idle"
    /\ \E in \in S, legend \in NewString :
        LET tf == Taskfile(in.includes, in.version, in.ids)
        IN  /\ taskfile' = tf
            /\ err' = ~in.ok
            /\ runs' = runs + 1
            /\ pc' = Entry(~in.ok, tf.Version)
            /\ CASE Entry(~in.ok, tf.Version) = "returned" ->
                      /\ result' = [returned |-> TRUE, text |-> <<>>, err |-> TRUE]
                      /\ UNCHANGED <<data, includes>>
                 [] Entry(~in.ok, tf.Version) = "fatal" ->
                      UNCHANGED <<data, includes, result>>
                 [] OTHER ->
                      /\ data' = Prologue(<<>>, legend)
                      /\ includes' \in GetIncludes(tf)
                      /\ UNCHANGED result
    /\ UNCHANGED <<includesToIncludedTasks, taskNames, taskName, calls, callCount, prev, log>>

Start == StartFrom(Inputs)

StartLib == StartFrom(LibInputs)

\* one iteration of the include loop
Include ==
    /\ pc = "includes"
    /\ includes # <<>>
    /\ includesToIncludedTasks' =
          [ns \in DOMAIN includesToIncludedTasks \cup {Head(includes)} |->
              IF ns = Head(includes) THEN {} ELSE includesToIncludedTasks[ns]]
    /\ data' = IncludeIcon(data, Head(includes))
    /\ includes' = Tail(includes)
    /\ UNCHANGED <<pc, taskfile, taskNames, taskName, calls, callCount, result, err, runs, prev, log>>

\* the range of the task loop: the task names sorted
SortTasks ==
    /\ pc = "includes"
    /\ includes = <<>>
    /\ taskNames' = Sorted(DOMAIN taskfile.Tasks)
    /\ pc' = "tasks"
    /\ UNCHANGED <<taskfile, data, includesToIncludedTasks, includes, taskName, calls,
                   callCount, result, err, runs, prev, log>>

\* a task iteration begins: text, style, icon
BeginTask ==
    /\ pc = "tasks"
    /\ taskNames # <<>>
    /\ taskName' = Head(taskNames)
    /\ taskNames' = Tail(taskNames)
    /\ data' = TaskHead(data, Head(taskNames), taskfile.Tasks[Head(taskNames)])
    /\ pc' = "requires"
    /\ UNCHANGED <<taskfile, includesToIncludedTasks, includes, calls, callCount, result,
                   err, runs, prev, log>>

\* the required-variable loop
RequiredVarsLoop ==
    /\ pc = "requires"
    /\ LET r == GetRequiredVars(taskfile.Tasks[taskName])
       IN  IF r.panic
           THEN pc' = "panic" /\ UNCHANGED data
           ELSE pc' = "deps" /\ data' = WriteRequiredVars(data, taskName, r.vars)
    /\ UNCHANGED <<taskfile, includesToIncludedTasks, includes, taskNames, taskName, calls,
                   callCount, result, err, runs, prev, log>>

\* the range of the dependency loop
DepCallsRange ==
    /\ pc = "deps"
    /\ LET r == GetDepCalls(taskfile.Tasks[taskName])
       IN  IF r.panic
           THEN pc' = "panic" /\ UNCHANGED calls
           ELSE pc' = "depcall" /\ calls' = r.calls
    /\ UNCHANGED <<taskfile, data, includesToIncludedTasks, includes, taskNames, taskName,
                   callCount, result, err, runs, prev, log>>

\* one call of EncapsulatePassedVars from TaskfileToD2
Emit(next, first, second) ==
    \E container \in NewString, uuids \in [1..Len(Head(calls).Vars) -> NewString] :
        LET r == EncapsulatePassedVars(data, includesToIncludedTasks, taskName,
                                       taskfile.Tasks, Head(calls), first, second,
                                       container, uuids)
        IN  /\ data' = r.data
            /\ includesToIncludedTasks' = r.memo
            /\ pc' = IF r.panic THEN "panic" ELSE next
            /\ calls' = Tail(calls)

\* one iteration of the dependency loop
DepCallStep ==
    /\ pc = "depcall"
    /\ calls # <<>>
    /\ Emit("depcall", <<"calls as dependency">>,
            <<"passed to {style {stroke-dash: 3; stroke: green}}">>)
    /\ UNCHANGED <<taskfile, includes, taskNames, taskName, callCount, result, err, runs, prev, log>>

\* the range of the inline-call loop
CallsRange ==
    /\ pc = "depcall"
    /\ calls = <<>>
    /\ LET r == GetCalls(taskfile.Tasks[taskName])
       IN  IF r.fatal
           THEN pc' = "fatal" /\ UNCHANGED calls
           ELSE pc' = "call" /\ calls' = r.calls
    /\ callCount' = 0
    /\ UNCHANGED <<taskfile, data, includesToIncludedTasks, includes, taskNames, taskName,
                   result, err, runs, prev, log>>

\* one iteration of the inline-call loop
CallStep ==
    /\ pc = "call"
    /\ calls # <<>>
    /\ callCount' = callCount + 1
    /\ Emit("call", <<"calls (", ToString(callCount + 1), ")">>,
            <<"passed to {style.stroke-dash: 3}">>)
    /\ UNCHANGED <<taskfile, includes, taskNames, taskName, result, err, runs, prev, log>>

\* the task iteration ends
EndTask ==
    /\ pc = "call"
    /\ calls = <<>>
    /\ pc' = "tasks"
    /\ UNCHANGED <<taskfile, data, includesToIncludedTasks, includes, taskNames, taskName,
                   calls, callCount, result, err, runs, prev, log>>

\* the global style rules and the return
Finish ==
    /\ pc = "tasks"
    /\ taskNames = <<>>
    /\ data' = Epilogue(data)
    /\ result' = [returned |-> TRUE, text |-> String(Epilogue(data)), err |-> FALSE]
    /\ pc' = "returned"
    /\ UNCHANGED <<taskfile, includesToIncludedTasks, includes, taskNames, taskName, calls,
                   callCount, err, runs, prev, log>>

\* the caller of a returned TaskfileToD2 calls it again; the locals are new,
\* the package-level memo is not
CallAgain ==
    /\ pc = "returned"
    /\ runs < MaxRuns
    /\ prev' = <<[taskfile |-> taskfile, result |-> result]>>
    /\ pc' = "idle"
    /\ taskfile' = ZeroTaskfile
    /\ data' = <<>>
    /\ includes' = <<>>
    /\ taskNames' = <<>>
    /\ taskName' = <<>>
    /\ calls' = <<>>
    /\ callCount' = 0
    /\ result' = NoResult
    /\ err' = FALSE
    /\ UNCHANGED <<includesToIncludedTasks, runs, log>>

Translate ==
    \/ Include \/ SortTasks \/ BeginTask \/ RequiredVarsLoop \/ DepCallsRange
    \/ DepCallStep \/ CallsRange \/ CallStep \/ EndTask \/ Finish

\* the program: main calls TaskfileToD2 once
Next == Start \/ Translate

Spec == Init /\ [][Next]_vars

\* TaskfileToD2 called repeatedly in one process
NextLib == StartLib \/ Translate \/ CallAgain

SpecLib == Init /\ [][NextLib]_vars

\* ------------------------------------------------- a writer on its own
WriterKeys == {<<"k">>, <<"k", ": ", "v">>}
WriterValues == {<<"v">>, <<"w">>}
WriterArgs == {<<>>} \cup { <<v>> : v \in WriterValues }
                  \cup { <<v, w>> : v \in WriterValues, w \in WriterValues }

\* a caller invokes Write on a new writer
WriteCall ==
    /\ Len(log) < MaxWrites
    /\ \E key \in WriterKeys, values \in WriterArgs :
        /\ data' = Write(data, key, values)
        /\ log' = Append(log, [key |-> key, values |-> values])
    /\ UNCHANGED <<pc, taskfile, includesToIncludedTasks, includes, taskNames, taskName,
                   calls, callCount, result, err, runs, prev>>

NextWriter == WriteCall

SpecWriter == Init /\ [][NextWriter]_vars

\* ------------------------------------------------------------ properties
\* number of statements of d equal to line
Count(d, line) == Cardinality({ i \in 1..Len(d) : d[i] = line })

\* the statement of an include container
IncludeLine(n) == Quoted(n) \o <<".icon", ": ">> \o IconRef(includedTaskfileIconName)

\* the icon statement of a task
TaskIconLine(n, internal) ==
    Quoted(n) \o <<".icon", ": ">>
        \o IconRef(IF internal THEN internalTaskIconName ELSE externalTaskIconName)

\* the unknown-task icon statement of a call target
UnknownIconLine(name) ==
    Quoted(ReplaceAll(name, ":", "'.'")) \o <<".icon", ": ">> \o IconRef(unknownTaskIconName)

\* TaskfileToD2 returned a rendered text
ReturnedText == pc = "returned" /\ result.returned /\ ~result.err

\* C1: the include statements appear in strictly lexicographic order of
\* include name, whatever order the includes mapping is iterated in
C1_IncludesLexicographic ==
    \A i, j \in 1..Len(data) : \A n1, n2 \in taskfile.Includes :
        (i < j /\ data[i] = IncludeLine(n1) /\ data[j] = IncludeLine(n2))
            => StrLess(n1, n2)

\* a text with every generated identifier replaced by a placeholder
RECURSIVE Normalized(_)
Normalized(s) ==
    IF s = <<>> THEN <<>>
    ELSE IF Head(s) = "uuid-" /\ Len(s) >= 2
    THEN <<"uuid-", "?">> \o Normalized(Tail(Tail(s)))
    ELSE <<Head(s)>> \o Normalized(Tail(s))

\* the same document was translated by the previous call and by this one
SameDocumentTwice ==
    /\ ReturnedText
    /\ prev # <<>>
    /\ ~prev[1].result.err
    /\ prev[1].taskfile.Version = <<"3">>
    /\ prev[1].taskfile = taskfile

\* C2: two translations of one version "3" document agree once generated
\* identifiers are replaced by a placeholder
C2_DeterministicUpToUuids ==
    SameDocumentTwice => Normalized(prev[1].result.text) = Normalized(result.text)

\* the next step emits a call whose target has a namespace separator
NamespacedCallPending ==
    /\ pc \in {"depcall", "call"}
    /\ calls # <<>>
    /\ Contains(Head(calls).TaskName, ":")

\* C3: once a call to ns:sub has been emitted, the run holds exactly one
\* unknown-task icon statement for that target: the first call writes it
\* and no later call writes it again
C3_UnknownIconOncePerPair ==
    [][NamespacedCallPending
          => Count(data', UnknownIconLine(Head(calls).TaskName)) = 1]_vars

\* the next step emits a call whose target has no namespace separator
FlatCallPending ==
    /\ pc \in {"depcall", "call"}
    /\ calls # <<>>
    /\ ~Contains(Head(calls).TaskName, ":")

\* C4: every call to a flat target that is no key of the task mapping adds
\* one unknown-task icon statement for it; a flat target that is a key of
\* the task mapping never has an unknown-task icon statement
C4_FlatUnknownEveryTime ==
    [][FlatCallPending =>
          LET line == UnknownIconLine(Head(calls).TaskName)
          IN  IF Head(calls).TaskName \in DOMAIN taskfile.Tasks
              THEN Count(data', line) = 0
              ELSE Count(data', line) = Count(data, line) + 1]_vars

\* an edge statement of an inline call without variables
CallEdgeLine(from, to, n) ==
    Quoted(from) \o <<" -> ">> \o Quoted(to) \o <<": ", "calls (", n, ")">>

C4_Witness ==
    /\ ReturnedText
    /\ Count(data, UnknownIconLine(nZ)) = 2
    /\ nB \in DOMAIN taskfile.Tasks
    /\ Count(data, CallEdgeLine(nA, nB, "2")) = 1
    /\ Count(data, UnknownIconLine(nB)) = 0

\* some task has both cmd and cmds set
HasCmdAndCmds(tf) ==
    \E n \in DOMAIN tf.Tasks : tf.Tasks[n].Cmd.t # "nil" /\ tf.Tasks[n].Cmds.t # "nil"

\* C5: a parsed document with a task that has both cmd and cmds never makes
\* TaskfileToD2 return: no text, not even a partial one, is produced
C5_CmdAndCmdsNoOutput ==
    (~err /\ HasCmdAndCmds(taskfile)) =>
        /\ pc # "returned"
        /\ ~result.returned
        /\ result.text = <<>>

\* log.Fatal in GetCmds stopped the run at the task that sorts last, after
\* the statements of an earlier task were written
C5_Witness ==
    /\ pc = "fatal"
    /\ taskfile.Version = <<"3">>
    /\ HasCmdAndCmds(taskfile)
    /\ Len(data) > 4
    /\ taskName = nB
    /\ nA \in DOMAIN taskfile.Tasks

\* C6: a parsed document of a version other than "3" stops the process
\* before any statement is written; unparsable input returns an error and
\* the empty text whatever version was decoded
C6_VersionCheckedFirst ==
    pc # "idle" =>
        /\ (err => /\ pc = "returned"
                   /\ result = [returned |-> TRUE, text |-> <<>>, err |-> TRUE]
                   /\ data = <<>>)
        /\ (~err /\ taskfile.Version # <<"3">>
               => pc = "fatal" /\ data = <<>> /\ ~result.returned)
        /\ (~err /\ taskfile.Version = <<"3">> => pc # "fatal" \/ data # <<>>)

C6_Witness ==
    /\ pc = "fatal"
    /\ ~err
    /\ taskfile.Version = <<"2">>
    /\ DOMAIN taskfile.Tasks # {}

\* the elements of a sequence
Range(q) == { q[i] : i \in 1..Len(q) }

\* the next step writes statements of a task
TaskWrites ==
    /\ \/ pc = "tasks" /\ taskNames # <<>>
       \/ pc \in {"requires", "depcall", "call"}
    /\ data' # data

\* the task the next step works on
CurrentTask == IF pc = "tasks" THEN Head(taskNames) ELSE taskName

\* position of the icon statement of task n
IconAt(n) ==
    CHOOSE i \in 1..Len(data) : data[i] = TaskIconLine(n, taskfile.Tasks[n].Internal)

\* C7: tasks are processed in strictly lexicographic order of name: when a
\* statement of a task is written the include loop is over, every smaller
\* task is finished and every task still waiting is greater; statements are
\* only appended; a returned text holds the icon statement of every task,
\* in order of name and after every include statement
C7_TasksLexicographic ==
    /\ [][TaskWrites =>
            /\ includes = <<>>
            /\ pc' # "includes"
            /\ SubSeq(data', 1, Len(data)) = data
            /\ \A u \in DOMAIN taskfile.Tasks :
                  StrLess(u, CurrentTask) => u \notin Range(taskNames)
            /\ \A u \in Range(taskNames) \ {CurrentTask} : StrLess(CurrentTask, u)
            /\ taskName' = CurrentTask
            /\ CurrentTask \notin Range(taskNames')]_vars
    /\ [](ReturnedText =>
            /\ \A u \in DOMAIN taskfile.Tasks :
                  Count(data, TaskIconLine(u, taskfile.Tasks[u].Internal)) = 1
            /\ \A u, w \in DOMAIN taskfile.Tasks :
                  StrLess(u, w) => IconAt(u) < IconAt(w)
            /\ \A u \in DOMAIN taskfile.Tasks : \A n \in taskfile.Includes :
                  \A i \in 1..Len(data) : data[i] = IncludeLine(n) => i < IconAt(u))

C7_Witness ==
    /\ ReturnedText
    /\ DOMAIN taskfile.Tasks = {nA, nAB, nB}
    /\ taskfile.Includes = {nA, nB}
    /\ IconAt(nA) < IconAt(nAB)
    /\ IconAt(nAB) < IconAt(nB)
    /\ IconAt(nB) < Len(data) - 6

\* the text of a scalar value
TextOf(x) == x.v

\* what the required-variable entries of a task should yield: one
\* RequiredVariable per string or structured entry, the enumeration optional
ExpectedRequiredVars(entries) ==
    IF \E i \in 1..Len(entries) : entries[i].t \notin {"string", "map"}
    THEN [panic |-> TRUE, vars |-> <<>>]
    ELSE [panic |-> FALSE,
          vars |-> [i \in 1..Len(entries) |->
              IF entries[i].t = "string"
              THEN RequiredVariable(entries[i].v, <<>>)
              ELSE LET enum == Lookup(entries[i].v, <<"enum">>)
                   IN  RequiredVariable(
                           Lookup(entries[i].v, <<"name">>).v,
                           IF enum.t = "list"
                           THEN [j \in 1..Len(enum.v) |-> TextOf(enum.v[j])]
                           ELSE <<>>)]]

\* C8: GetRequiredVars yields one RequiredVariable per entry, in order; a
\* structured entry yields its name and its enumerated values as text, the
\* enumeration optional and of any scalar type; only an entry that is
\* neither a string nor structured is fatal
C8_RequiredVariables ==
    pc = "requires" =>
        GetRequiredVars(taskfile.Tasks[taskName])
            = ExpectedRequiredVars(taskfile.Tasks[taskName].Requires)

\* the lines one Write call contributes
LinesOf(c) ==
    IF c.values = <<>> THEN <<c.key>>
    ELSE [i \in 1..Len(c.values) |-> c.key \o <<": ">> \o c.values[i]]

\* the lines of a sequence of Write calls, in call order
RECURSIVE LinesOfAll(_)
LinesOfAll(l) ==
    IF l = <<>> THEN <<>>
    ELSE LinesOfAll(SubSeq(l, 1, Len(l) - 1)) \o LinesOf(l[Len(l)])

\* lines with a newline between each two
RECURSIVE NewlineSeparated(_)
NewlineSeparated(lines) ==
    IF lines = <<>> THEN <<>>
    ELSE IF Len(lines) = 1 THEN lines[1]
    ELSE NewlineSeparated(SubSeq(lines, 1, Len(lines) - 1)) \o <<"\n">> \o lines[Len(lines)]

\* C9: after any sequence of Write calls the statement list is the
\* concatenation, in call order, of each call's lines (key alone, or one
\* "key: value" per value); nothing is merged or removed; String is those
\* lines joined by a newline
C9_WriterAppendsInOrder ==
    /\ data = LinesOfAll(log)
    /\ String(data) = NewlineSeparated(LinesOfAll(log))

\* equal adjacent lines written by a call without values and a call with two
C9_Witness ==
    /\ Len(log) = MaxWrites
    /\ \E i \in 1..(Len(data) - 1) : data[i] = data[i + 1]
    /\ \E i \in 1..Len(log) : Len(log[i].values) = 2
    /\ \E i \in 1..Len(log) : log[i].values = <<>>
    /\ Len(data) > Len(log)

\* C10: the memo entry a call consults was made by the run the call belongs
\* to: no mark of an earlier run is visible to a later one
C10_MemoScopedToRun ==
    NamespacedCallPending =>
        LET ns == SplitN2(Head(calls).TaskName, ":")[1]
        IN  ns \in DOMAIN includesToIncludedTasks => ns \in taskfile.Includes

\* some dependency or required-variable entry is neither a string nor a
\* structured form
HasUnrecognizedShape(tf) ==
    \E n \in DOMAIN tf.Tasks :
        \/ \E i \in 1..Len(tf.Tasks[n].Deps) :
              tf.Tasks[n].Deps[i].t \notin {"string", "map"}
        \/ \E i \in 1..Len(tf.Tasks[n].Requires) :
              tf.Tasks[n].Requires[i].t \notin {"string", "map"}

\* C11: a translation of a parsed document is stopped (log.Fatal or panic)
\* only for a version other than "3", a task with both cmd and cmds, or an
\* entry of unrecognized shape; a call to ns:sub with ns no key of the
\* includes does not stop it
C11_FatalOnlyForListedCauses ==
    (~err /\ pc \in {"fatal", "panic"}) =>
        \/ taskfile.Version # <<"3">>
        \/ HasCmdAndCmds(taskfile)
        \/ HasUnrecognizedShape(taskfile)

\* the next step emits a call
CallPending == pc \in {"depcall", "call"} /\ calls # <<>>

\* the statements the next step appends
NewLines == SubSeq(data', Len(data) + 1, Len(data'))

\* the first-edge and second-edge labels of the loop the call is emitted from
FirstLabel ==
    IF pc = "depcall" THEN <<"calls as dependency">>
    ELSE <<"calls (", ToString(callCount + 1), ")">>

SecondLabel ==
    IF pc = "depcall" THEN <<"passed to {style {stroke-dash: 3; stroke: green}}">>
    ELSE <<"passed to {style.stroke-dash: 3}">>

\* the node a call target is drawn as
TargetNode(c) == Quoted(ReplaceAll(c.TaskName, ":", "'.'"))

\* line is an edge statement from one node to another, whatever its label
IsEdge(line, from, to) ==
    LET key == from \o <<" -> ">> \o to
    IN  /\ Len(line) > Len(key)
        /\ SubSeq(line, 1, Len(key)) = key
        /\ line[Len(key) + 1] = ": "

\* line is a text node id inside container u
IsValueNode(line, u, id) ==
    LET key == u \o <<".">> \o id \o <<": ">>
    IN  /\ Len(line) > Len(key)
        /\ SubSeq(line, 1, Len(key)) = key
        /\ line[Len(line)] = " {shape: text}"

\* lines are the statements of a call from s with bindings: the intermediate
\* node u with its two edges, then node, value and "set to" edge of every
\* binding in turn, ids[i] naming the value node of the i-th
IsCallWithBindings(lines, s, c, first, second, u, ids) ==
    /\ Len(lines) = 3 + 3 * Len(c.Vars)
    /\ lines[1] = Quoted(s) \o <<" -> ">> \o u \o <<": ">> \o first
    /\ lines[2] = u \o <<" -> ">> \o TargetNode(c) \o <<": ">> \o second
    /\ lines[3] = u \o <<": ", "With {shape: parallelogram; style.stroke-dash: 3}">>
    /\ \A i \in 1..Len(c.Vars) :
          LET var == u \o <<".">> \o Quoted(c.Vars[i].Name)
          IN  /\ lines[3 * i + 1] = var \o <<": ", "{shape: image; icon: ">>
                                        \o IconRef(varIconName) \o <<"}">>
              /\ IsValueNode(lines[3 * i + 2], u, ids[i])
              /\ lines[3 * i + 3] = var \o <<" -> ">> \o u \o <<".">> \o ids[i]
                                        \o <<": ", "set to">>

\* the names bound by a dependency entry
BindingNames(dep) ==
    IF dep.t = "map" /\ Lookup(dep.v, <<"vars">>).t = "map"
    THEN DOMAIN Lookup(dep.v, <<"vars">>).v
    ELSE {}

\* C12: a call without bindings appends one edge source -> target with the
\* first-edge label and no intermediate node; a call with bindings appends
\* one "With" node under a generated id, one edge source -> node (first
\* label), one edge node -> target (second label) and, per binding in
\* lexicographic order of name, variable node, value node and "set to"
\* edge, and no edge source -> target; only the unknown-task icon of the
\* target may follow.  The bindings of a dependency call are those of its
\* entry.
C12_CallEmission ==
    /\ [][CallPending =>
            LET c == Head(calls)
                body == IF NewLines # <<>>
                           /\ NewLines[Len(NewLines)] = UnknownIconLine(c.TaskName)
                        THEN SubSeq(NewLines, 1, Len(NewLines) - 1)
                        ELSE NewLines
            IN  /\ SubSeq(data', 1, Len(data)) = data
                /\ \A i, j \in 1..Len(c.Vars) :
                      i < j => StrLess(c.Vars[i].Name, c.Vars[j].Name)
                /\ IF Len(c.Vars) = 0
                   THEN body = <<Quoted(taskName) \o <<" -> ">> \o TargetNode(c)
                                     \o <<": ">> \o FirstLabel>>
                   ELSE /\ \E u \in NewString, ids \in [1..Len(c.Vars) -> NewString] :
                              IsCallWithBindings(body, taskName, c, FirstLabel,
                                                 SecondLabel, u, ids)
                        /\ \A i \in 1..Len(NewLines) :
                              ~IsEdge(NewLines[i], Quoted(taskName), TargetNode(c))]_vars
    /\ [][(pc = "deps" /\ pc' = "depcall") =>
            LET deps == taskfile.Tasks[taskName].Deps
            IN  /\ Len(calls') = Len(deps)
                /\ \A i \in 1..Len(deps) :
                      /\ { calls'[i].Vars[j].Name : j \in 1..Len(calls'[i].Vars) }
                             = BindingNames(deps[i])
                      /\ Len(calls'[i].Vars) = Cardinality(BindingNames(deps[i]))]_vars

\* a returned text with an inline call that passes k and x, in that order,
\* through an intermediate node, and a dependency call without bindings
C12_Witness ==
    /\ ReturnedText
    /\ Count(data, Quoted(nA) \o <<" -> ">> \o Quoted(nZ) \o <<": ", "calls as dependency">>) = 1
    /\ \E u \in NewString, ids \in [1..2 -> NewString] : \E i \in 1..Len(data) :
          /\ i + 8 <= Len(data)
          /\ data[i] = Quoted(nA) \o <<" -> ">> \o u \o <<": ", "calls (", "1", ")">>
          /\ data[i + 1] = u \o <<" -> ">> \o Quoted(nB)
                             \o <<": ", "passed to {style.stroke-dash: 3}">>
          /\ data[i + 5] = u \o <<".">> \o Quoted(vK) \o <<" -> ">> \o u \o <<".">> \o ids[1]
                             \o <<": ", "set to">>
          /\ data[i + 8] = u \o <<".">> \o Quoted(vX) \o <<" -> ">> \o u \o <<".">> \o ids[2]
                             \o <<": ", "set to">>
    /\ \A i \in 1..Len(data) : ~IsEdge(data[i], Quoted(nA), Quoted(nB))

\* a command entry is structured and designates a task invocation
IsTaskInvocation(e) ==
    /\ e.t = "map"
    /\ <<"task">> \in DOMAIN e.v
    /\ e.v[<<"task">>].t = "string"

\* the resolved command list of a task without both forms: the single
\* command as a one-element list, else the command list
ResolvedCommands(t) ==
    IF t.Cmd.t # "nil" THEN <<t.Cmd>>
    ELSE IF t.Cmds.t = "list" THEN t.Cmds.v
    ELSE <<>>

\* the targets of the task invocations of a task, in list order
InlineTargets(t) ==
    LET inv == SelectSeq(ResolvedCommands(t), IsTaskInvocation)
    IN  [i \in 1..Len(inv) |-> inv[i].v[<<"task">>].v]

\* C13: the inline calls of a task are the task invocations of its resolved
\* command list, in list order; the i-th is emitted with the label
\* "calls (i)", the counter starts at 0 for every task, skipped entries
\* take no number, and a task with k inline calls ends with the counter k
C13_InlineCallsNumbered ==
    /\ [][(pc = "depcall" /\ pc' = "call") =>
            /\ [i \in 1..Len(calls') |-> calls'[i].TaskName]
                   = InlineTargets(taskfile.Tasks[taskName])
            /\ callCount' = 0]_vars
    /\ [][(pc = "call" /\ calls # <<>>) =>
            LET all == InlineTargets(taskfile.Tasks[taskName])
                i == Len(all) - Len(calls) + 1
                label == <<": ", "calls (", ToString(i), ")">>
            IN  /\ i >= 1
                /\ Head(calls).TaskName = all[i]
                /\ callCount' = i
                /\ calls' = Tail(calls)
                /\ NewLines # <<>>
                /\ Len(NewLines[1]) > 5
                /\ SubSeq(NewLines[1], 1, Len(Quoted(taskName)) + 1)
                       = Quoted(taskName) \o <<" -> ">>
                /\ SubSeq(NewLines[1], Len(NewLines[1]) - 3, Len(NewLines[1])) = label]_vars
    /\ [][(pc = "call" /\ calls = <<>>) =>
            callCount = Len(InlineTargets(taskfile.Tasks[taskName]))]_vars

\* two tasks whose command lists hold a call, a shell command and a call:
\* each is numbered 1, 2
C13_Witness ==
    /\ ReturnedText
    /\ Count(data, CallEdgeLine(nA, nZ, "1")) = 1
    /\ Count(data, CallEdgeLine(nA, nB, "2")) = 1
    /\ Count(data, CallEdgeLine(nB, nZ, "1")) = 1
    /\ Count(data, CallEdgeLine(nB, nB, "2")) = 1
    /\ \A i \in 1..Len(data) : data[i][Len(data[i]) - 1] # "3"

====
